---- MODULE Spec2Model ----
(***************************************************************************)
(* Model of src/src/main.rs: exec_v8 runs one script in a fresh V8 isolate *)
(* under a CPU watchdog thread and a near-heap-limit callback, get_error   *)
(* classifies a failed compile/run/stringify, and main renders the result. *)
(* The executor thread, the watchdog thread and the engine (termination    *)
(* requests honoured at safe points, heap callback invoked inside engine   *)
(* allocations) are interleaved step by step.                              *)
(***************************************************************************)
EXTENDS Naturals, Sequences, FiniteSets

\* Number of sequential calls of exec_v8 that are explored.
MaxCalls == 2
\* Number of invocations of near_heap_limit_cb explored within one call.
MaxCb == 2

VARIABLES
  call,       \* index of the current (or last) call of exec_v8, 0 before the first
  script,     \* the input of the current call, as the behaviour the engine shows on it
  pc,         \* position of the executor thread
  flag,       \* near_heap_limit_reached (AtomicBool, line 72)
  completed,  \* completed_flag (AtomicBool, line 90)
  wd,         \* state of the watchdog thread spawned by each call
  spawns,     \* number of watchdog threads each call has spawned
  term,       \* termination state of the current isolate
  exc,        \* value caught by the TryCatch scope, "none" when nothing was caught
  result,     \* the local `result` of exec_v8 (lines 100-123)
  outcome,    \* the value exec_v8 returned
  rendered,   \* the ScriptResult main built from the outcome
  flagLoaded, \* what get_error's load of the flag returned ("unread" before)
  wdFired,    \* terminate_execution was invoked in the current call
  firedAt,    \* executor position when terminate_execution was invoked
  cbCount,    \* invocations of near_heap_limit_cb in the current call
  isolateAlive, \* the isolate of the current call exists (lines 79-144)
  flagAlive,  \* the AtomicBool behind callback_data_ptr is allocated (lines 72-144)
  fires,      \* number of terminate_execution calls in the current call
  wdLoaded,   \* what the watchdog's load of completed_flag returned ("unread" before)
  slept,      \* the watchdog's sleep of the current call has elapsed
  prev        \* script and outcome of the call before the current one

vars == << call, script, pc, flag, completed, wd, spawns, term, exc, result,
           outcome, rendered, flagLoaded, wdFired, firedAt, cbCount,
           isolateAlive, flagAlive, fires, wdLoaded, slept, prev >>

----------------------------------------------------------------------------
\* Messages

MsgHeapErr == "Execution error: V8 was near heap allocation limit"
MsgHeapOnly == "V8 was near heap allocation limit"
MsgHeapFinished == "Execution finished, but V8 was near heap allocation limit."
MsgTimeout == "Execution timed out"
MsgUnknown == "Unknown error"

HeapMessages == { MsgHeapErr, MsgHeapOnly, MsgHeapFinished }

\* Result<String, String>
Ok(s) == [ok |-> TRUE, s |-> s]
Err(s) == [ok |-> FALSE, s |-> s]
NoResult == [ok |-> FALSE, s |-> "<unset>"]

----------------------------------------------------------------------------
\* Scripts, described by what the engine does with them.

\* JavaScript strings a script can evaluate to: the empty string, an ordinary
\* string and a string holding a lone surrogate.
JsValues == { "", "2", "<D800>" }

\* Values a script can throw.
SyntaxErrorValue == "SyntaxError: Unexpected end of input"
ThrownValue == "ReferenceError: undefined_variable is not defined"
CoercionErrorValue == "TypeError: Cannot convert object to primitive value"

RunKinds == { "value", "throw", "loop", "none" }
StrKinds == { "plain", "js", "loop", "throw" }

\* compiles: Script::compile returns Some
\* run:      script.run produces a value / throws / never completes /
\*           returns None with nothing caught
\* str:      val.to_string is a primitive coercion / runs script code and
\*           completes / runs script code forever / throws
\* val:      the string the value coerces to
\* heapy:    the script (or its size) brings the heap near its ceiling
Scripts ==
  { s \in [compiles : BOOLEAN, run : RunKinds, str : StrKinds,
           val : JsValues, heapy : BOOLEAN] :
      /\ (~s.compiles => s.run = "none")
      /\ (s.run # "value" => s.str = "plain")
      /\ (~(s.run = "value" /\ s.str \in {"plain", "js"}) => s.val = "2") }

NoScript == [compiles |-> FALSE, run |-> "none", str |-> "plain",
             val |-> "2", heapy |-> FALSE]

\* (variant: the UTF-16 units are copied without replacement)
to_rust_string_raw(v) == v

\* to_rust_string_lossy: UTF-8, a lone surrogate becomes U+FFFD
to_rust_string_lossy(v) == IF v = "<D800>" THEN "<FFFD>" ELSE v

\* Exception::create_message(..).get(..): the engine renders the caught value
create_message(e) == "Uncaught " \o e

----------------------------------------------------------------------------
\* get_error (lines 7-30) as a function of what it loads and asks the scope.

\* (variant: is_execution_terminating is tested before the flag)
get_error_termination_first(f, terminating, e) ==
  IF terminating THEN MsgTimeout
  ELSE IF f THEN (IF e # "none" THEN MsgHeapErr ELSE MsgHeapOnly)
  ELSE IF e # "none" THEN "Uncaught " \o e
  ELSE MsgUnknown

\* (variant: is_execution_terminating is not consulted)
get_error_without_termination(f, terminating, e) ==
  IF f
  THEN IF e # "none" THEN MsgHeapErr ELSE MsgHeapOnly
  ELSE IF e # "none" THEN "Uncaught " \o e
       ELSE MsgUnknown

get_error(f, terminating, e) ==
  IF f
  THEN IF terminating \/ e # "none" THEN MsgHeapErr ELSE MsgHeapOnly
  ELSE IF terminating THEN MsgTimeout
       ELSE IF e # "none" THEN to_rust_string_lossy(create_message(e))
       ELSE MsgUnknown

\* get_error takes the branch of line 26, which allocates in the engine
NeedsMessage(f, terminating, e) == ~f /\ ~terminating /\ e # "none"

\* lines 131-143: the check of the flag after the join
Reconcile(f, r) ==
  IF f /\ r.ok THEN Err(MsgHeapFinished) ELSE r

\* main, lines 171-180
Render(o) ==
  IF o.ok THEN [result |-> o.s, error |-> ""]
          ELSE [result |-> "", error |-> o.s]

NoRender == [result |-> "<unset>", error |-> "<unset>"]

\* (variant: the isolate of the previous call is used again)
IsolateReused(old) == old

\* Isolate::new (line 79): a new isolate has no termination request, whatever
\* state the isolate of the previous call was left in
IsolateNew(old) == "none"

\* (variant: the isolate counts as terminating as soon as it is asked to)
terminate_execution_eager(t) == "terminating"

\* IsolateHandle::terminate_execution (line 96)
terminate_execution(t) == IF t = "none" THEN "requested" ELSE t

\* (variant: the watchdog aborts without testing completed_flag)
WatchdogAlwaysAborts(c) == TRUE

\* (variant: the test of line 95 is inverted)
WatchdogAbortsInverted(c) == c

\* line 95: the watchdog aborts when it loads completed_flag as false
WatchdogAborts(c) == ~c

\* Executor positions inside an engine call that allocates on the heap
EnginePcs == { "compile", "run", "to_string", "create_message" }

Calls == 1..MaxCalls

\* What a caller that compares two runs keeps of the call that returned: the
\* script and the outcome (quiet: the heap callback did not fire in it and
\* the watchdog did not call terminate_execution before compile, run and the
\* string coercion had returned). keep: the caller is one that compares.
NoPrev == [keep |-> FALSE, script |-> NoScript, outcome |-> NoResult,
           quiet |-> FALSE]

----------------------------------------------------------------------------
Init ==
  /\ call = 0
  /\ script = NoScript
  /\ pc = "idle"
  /\ flag = FALSE
  /\ completed = FALSE
  /\ wd = [c \in Calls |-> "unborn"]
  /\ spawns = [c \in Calls |-> 0]
  /\ term = "none"
  /\ exc = "none"
  /\ result = NoResult
  /\ outcome = NoResult
  /\ rendered = NoRender
  /\ flagLoaded = "unread"
  /\ wdFired = FALSE
  /\ firedAt = "never"
  /\ cbCount = 0
  /\ isolateAlive = FALSE
  /\ flagAlive = FALSE
  /\ fires = 0
  /\ wdLoaded = "unread"
  /\ slept = FALSE
  /\ prev = NoPrev

\* (variant: the two flags are kept across calls instead of being created
\* by each call)
CallKeepingFlags ==
  /\ pc = "idle"
  /\ call < MaxCalls
  /\ \E s \in Scripts : script' = s
  /\ call' = call + 1
  /\ flag' = flag
  /\ term' = "none"
  /\ completed' = completed
  /\ wd' = [wd EXCEPT ![call + 1] = "sleeping"]
  /\ spawns' = [spawns EXCEPT ![call + 1] = @ + 1]
  /\ exc' = "none"
  /\ result' = NoResult
  /\ outcome' = NoResult
  /\ rendered' = NoRender
  /\ flagLoaded' = "unread"
  /\ wdFired' = FALSE
  /\ firedAt' = "never"
  /\ cbCount' = 0
  /\ flagAlive' = TRUE
  /\ isolateAlive' = TRUE
  /\ fires' = 0
  /\ wdLoaded' = "unread"
  /\ slept' = FALSE
  /\ prev' = prev
  /\ pc' = "compile"

\* exec_v8 lines 72-98: flag, isolate, callback, handle, completed_flag, spawn
Call ==
  /\ pc = "idle"
  /\ call < MaxCalls
  /\ \E s \in Scripts : script' = s
  /\ call' = call + 1
  /\ flag' = FALSE
  /\ term' = IsolateNew(term)
  /\ completed' = FALSE
  /\ wd' = [wd EXCEPT ![call + 1] = "sleeping"]
  /\ spawns' = [spawns EXCEPT ![call + 1] = @ + 1]
  /\ exc' = "none"
  /\ result' = NoResult
  /\ outcome' = NoResult
  /\ rendered' = NoRender
  /\ flagLoaded' = "unread"
  /\ wdFired' = FALSE
  /\ firedAt' = "never"
  /\ cbCount' = 0
  /\ flagAlive' = TRUE
  /\ isolateAlive' = TRUE
  /\ fires' = 0
  /\ wdLoaded' = "unread"
  /\ slept' = FALSE
  /\ prev' = IF call = 0 \/ ~prev.keep THEN prev
             ELSE [keep |-> TRUE, script |-> script, outcome |-> outcome,
                   quiet |-> cbCount = 0 /\
                             firedAt \notin {"compile", "run", "to_string"}]
  /\ pc' = "compile"

\* lines 101-107: scopes, context, source string, Script::compile
Compile ==
  /\ pc = "compile"
  /\ IF script.compiles
     THEN pc' = "run" /\ exc' = exc
     ELSE pc' = "get_error" /\ exc' = SyntaxErrorValue
  /\ UNCHANGED << call, script, flag, completed, wd, spawns, term, result,
                  outcome, rendered, flagLoaded, wdFired, firedAt, cbCount,
                  isolateAlive, flagAlive, fires, wdLoaded, slept, prev >>

\* line 108: script.run. A requested termination is honoured at a safe point;
\* a script that completes may do so before it reaches one.
Run ==
  /\ pc = "run"
  /\ \/ /\ term = "requested"
        /\ term' = "terminating"
        /\ pc' = "get_error"
        /\ exc' = exc
     \/ /\ script.run = "value"
        /\ pc' = "to_string"
        /\ UNCHANGED << term, exc >>
     \/ /\ script.run = "throw"
        /\ pc' = "get_error"
        /\ exc' = ThrownValue
        /\ term' = term
     \/ /\ script.run = "none"
        /\ pc' = "get_error"
        /\ UNCHANGED << term, exc >>
  /\ UNCHANGED << call, script, flag, completed, wd, spawns, result,
                  outcome, rendered, flagLoaded, wdFired, firedAt, cbCount,
                  isolateAlive, flagAlive, fires, wdLoaded, slept, prev >>

\* lines 109-110: val.to_string and to_rust_string_lossy. A primitive
\* coercion runs no script code and meets no safe point.
Stringify ==
  /\ pc = "to_string"
  /\ \/ /\ script.str \in {"js", "loop"}
        /\ term = "requested"
        /\ term' = "terminating"
        /\ pc' = "get_error"
        /\ UNCHANGED << exc, result >>
     \/ /\ script.str \in {"plain", "js"}
        /\ result' = Ok(to_rust_string_lossy(script.val))
        /\ pc' = "store"
        /\ UNCHANGED << term, exc >>
     \/ /\ script.str = "throw"
        /\ exc' = CoercionErrorValue
        /\ pc' = "get_error"
        /\ UNCHANGED << term, result >>
  /\ UNCHANGED << call, script, flag, completed, wd, spawns,
                  outcome, rendered, flagLoaded, wdFired, firedAt, cbCount,
                  isolateAlive, flagAlive, fires, wdLoaded, slept, prev >>

\* get_error lines 11-24 and 27-29: the load of the flag and every branch
\* but the rendering of the caught exception
GetError ==
  /\ pc = "get_error"
  /\ flagLoaded' = (IF flag THEN "true" ELSE "false")
  /\ IF NeedsMessage(flag, term = "terminating", exc)
     THEN pc' = "create_message" /\ result' = result
     ELSE /\ result' = Err(get_error(flag, term = "terminating", exc))
          /\ pc' = "store"
  /\ UNCHANGED << call, script, flag, completed, wd, spawns, term, exc,
                  outcome, rendered, wdFired, firedAt, cbCount,
                  isolateAlive, flagAlive, fires, wdLoaded, slept, prev >>

\* get_error lines 25-26: the message object is created in the engine
CreateMessage ==
  /\ pc = "create_message"
  /\ result' = Err(get_error(flagLoaded = "true", term = "terminating", exc))
  /\ pc' = "store"
  /\ UNCHANGED << call, script, flag, completed, wd, spawns, term, exc,
                  outcome, rendered, flagLoaded, wdFired, firedAt, cbCount,
                  isolateAlive, flagAlive, fires, wdLoaded, slept, prev >>

\* (variant: the store of line 124 is missing)
StoreSkipped ==
  /\ pc = "store"
  /\ pc' = "join"
  /\ UNCHANGED << call, script, flag, completed, wd, spawns, term, exc, result,
                  outcome, rendered, flagLoaded, wdFired, firedAt, cbCount,
                  isolateAlive, flagAlive, fires, wdLoaded, slept, prev >>

\* line 124
StoreCompleted ==
  /\ pc = "store"
  /\ completed' = TRUE
  /\ pc' = "join"
  /\ UNCHANGED << call, script, flag, wd, spawns, term, exc, result,
                  outcome, rendered, flagLoaded, wdFired, firedAt, cbCount,
                  isolateAlive, flagAlive, fires, wdLoaded, slept, prev >>

\* (variant: the executor goes on without waiting for the watchdog)
JoinNoWait ==
  /\ pc = "join"
  /\ pc' = "check"
  /\ UNCHANGED << call, script, flag, completed, wd, spawns, term, exc, result,
                  outcome, rendered, flagLoaded, wdFired, firedAt, cbCount,
                  isolateAlive, flagAlive, fires, wdLoaded, slept, prev >>

\* line 125: join returns once the watchdog closure has returned
Join ==
  /\ pc = "join"
  /\ wd[call] = "done"
  /\ wd' = [wd EXCEPT ![call] = "joined"]
  /\ pc' = "check"
  /\ UNCHANGED << call, script, flag, completed, spawns, term, exc, result,
                  outcome, rendered, flagLoaded, wdFired, firedAt, cbCount,
                  isolateAlive, flagAlive, fires, wdLoaded, slept, prev >>

\* lines 131-143: the second load of the flag and the value returned
Return ==
  /\ pc = "check"
  /\ outcome' = Reconcile(flag, result)
  /\ pc' = "drop_isolate"
  /\ UNCHANGED << call, script, flag, completed, wd, spawns, term, exc, result,
                  rendered, flagLoaded, wdFired, firedAt, cbCount,
                  isolateAlive, flagAlive, fires, wdLoaded, slept, prev >>

\* (variant: near_heap_limit_reached is declared after the isolate and so
\* released before it)
DropIsolateAfterFlag ==
  /\ pc = "drop_isolate"
  /\ flagAlive' = FALSE
  /\ pc' = "drop_flag"
  /\ UNCHANGED << call, script, flag, completed, wd, spawns, term, exc, result,
                  outcome, rendered, flagLoaded, wdFired, firedAt, cbCount,
                  isolateAlive, fires, wdLoaded, slept, prev >>

\* line 144: the locals are dropped in reverse order of declaration, the
\* isolate (line 79) before near_heap_limit_reached (line 72)
DropIsolate ==
  /\ pc = "drop_isolate"
  /\ isolateAlive' = FALSE
  /\ pc' = "drop_flag"
  /\ UNCHANGED << call, script, flag, completed, wd, spawns, term, exc, result,
                  outcome, rendered, flagLoaded, wdFired, firedAt, cbCount,
                  flagAlive, fires, wdLoaded, slept, prev >>

\* line 144: the last Arc of near_heap_limit_reached is dropped and exec_v8
\* has returned
DropFlag ==
  /\ pc = "drop_flag"
  /\ flagAlive' = FALSE
  /\ isolateAlive' = FALSE
  /\ pc' = "returned"
  /\ UNCHANGED << call, script, flag, completed, wd, spawns, term, exc, result,
                  outcome, rendered, flagLoaded, wdFired, firedAt, cbCount,
                  fires, wdLoaded, slept, prev >>

\* main lines 171-180 (a test, or a caller, then makes its next call)
RenderResult ==
  /\ pc = "returned"
  /\ rendered' = Render(outcome)
  /\ pc' = "idle"
  /\ UNCHANGED << call, script, flag, completed, wd, spawns, term, exc, result,
                  outcome, flagLoaded, wdFired, firedAt, cbCount,
                  isolateAlive, flagAlive, fires, wdLoaded, slept, prev >>

----------------------------------------------------------------------------
\* The watchdog thread, lines 93-98

\* line 94: the sleep ends
WdWake ==
  /\ call \in Calls
  /\ pc # "crashed"
  /\ wd[call] = "sleeping"
  /\ wd' = [wd EXCEPT ![call] = "awake"]
  /\ slept' = TRUE
  /\ UNCHANGED << call, script, pc, flag, completed, spawns, term, exc, result,
                  outcome, rendered, flagLoaded, wdFired, firedAt, cbCount,
                  isolateAlive, flagAlive, fires, wdLoaded, prev >>

\* line 95: the load of completed_flag
WdLoad ==
  /\ call \in Calls
  /\ pc # "crashed"
  /\ wd[call] = "awake"
  /\ wd' = [wd EXCEPT ![call] =
              IF WatchdogAborts(completed) THEN "firing" ELSE "done"]
  /\ wdLoaded' = (IF completed THEN "true" ELSE "false")
  /\ UNCHANGED << call, script, pc, flag, completed, spawns, term, exc, result,
                  outcome, rendered, flagLoaded, wdFired, firedAt, cbCount,
                  isolateAlive, flagAlive, fires, slept, prev >>

\* line 96: terminate_execution, then the closure returns
WdTerminate ==
  /\ call \in Calls
  /\ pc # "crashed"
  /\ wd[call] = "firing"
  /\ term' = (IF isolateAlive THEN terminate_execution(term) ELSE term)
  /\ wdFired' = TRUE
  /\ fires' = fires + 1
  /\ firedAt' = pc
  /\ wd' = [wd EXCEPT ![call] = "done"]
  /\ UNCHANGED << call, script, pc, flag, completed, spawns, exc, result,
                  outcome, rendered, flagLoaded, cbCount,
                  isolateAlive, flagAlive, wdLoaded, slept, prev >>

----------------------------------------------------------------------------
\* The engine's heap hooks, called on the executor thread inside an allocation

\* (variant: the callback flips the flag instead of storing true)
HeapCbFlipping ==
  /\ pc \in EnginePcs
  /\ isolateAlive
  /\ script.heapy
  /\ cbCount < MaxCb
  /\ flag' = ~flag
  /\ cbCount' = cbCount + 1
  /\ UNCHANGED << call, script, pc, completed, wd, spawns, term, exc, result,
                  outcome, rendered, flagLoaded, wdFired, firedAt,
                  isolateAlive, flagAlive, fires, wdLoaded, slept, prev >>

\* near_heap_limit_cb, lines 55-69: stores true, returns the limit unchanged
HeapCb ==
  /\ pc \in EnginePcs
  /\ isolateAlive
  /\ script.heapy
  /\ cbCount < MaxCb
  /\ flag' = TRUE
  /\ cbCount' = cbCount + 1
  /\ UNCHANGED << call, script, pc, completed, wd, spawns, term, exc, result,
                  outcome, rendered, flagLoaded, wdFired, firedAt,
                  isolateAlive, flagAlive, fires, wdLoaded, slept, prev >>

\* oom_handler, lines 45-49: the callback left the limit as it was, the
\* allocation fails, the handler returns and the engine aborts the process
HardOOM ==
  /\ pc \in EnginePcs
  /\ script.heapy
  /\ flag
  /\ pc' = "crashed"
  /\ UNCHANGED << call, script, flag, completed, wd, spawns, term, exc, result,
                  outcome, rendered, flagLoaded, wdFired, firedAt, cbCount,
                  isolateAlive, flagAlive, fires, wdLoaded, slept, prev >>

----------------------------------------------------------------------------
Next ==
  \/ Call
  \/ Compile
  \/ Run
  \/ Stringify
  \/ GetError
  \/ CreateMessage
  \/ StoreCompleted
  \/ Join
  \/ Return
  \/ DropIsolate
  \/ DropFlag
  \/ RenderResult
  \/ WdWake
  \/ WdLoad
  \/ WdTerminate
  \/ HeapCb
  \/ HardOOM

Spec == Init /\ [][Next]_vars

\* The same program under a caller that runs scripts twice and compares the
\* outcomes
InitPair ==
  /\ call = 0
  /\ script = NoScript
  /\ pc = "idle"
  /\ flag = FALSE
  /\ completed = FALSE
  /\ wd = [c \in Calls |-> "unborn"]
  /\ spawns = [c \in Calls |-> 0]
  /\ term = "none"
  /\ exc = "none"
  /\ result = NoResult
  /\ outcome = NoResult
  /\ rendered = NoRender
  /\ flagLoaded = "unread"
  /\ wdFired = FALSE
  /\ firedAt = "never"
  /\ cbCount = 0
  /\ isolateAlive = FALSE
  /\ flagAlive = FALSE
  /\ fires = 0
  /\ wdLoaded = "unread"
  /\ slept = FALSE
  /\ prev = [NoPrev EXCEPT !.keep = TRUE]

PairSpec == InitPair /\ [][Next]_vars

\* The executor and the watchdog are OS threads that keep being scheduled,
\* and the engine honours a termination request at its next safe point.
\* No fairness on Call (the caller's choice) nor on the heap hooks.
FairSpec ==
  /\ Spec
  /\ WF_vars(Compile)
  /\ WF_vars(Run)
  /\ WF_vars(Stringify)
  /\ WF_vars(GetError)
  /\ WF_vars(CreateMessage)
  /\ WF_vars(StoreCompleted)
  /\ WF_vars(Join)
  /\ WF_vars(Return)
  /\ WF_vars(DropIsolate)
  /\ WF_vars(DropFlag)
  /\ WF_vars(WdWake)
  /\ WF_vars(WdLoad)
  /\ WF_vars(WdTerminate)

TypeOK ==
  /\ call \in 0..MaxCalls
  /\ script \in Scripts \cup {NoScript}
  /\ pc \in { "idle", "compile", "run", "to_string", "get_error",
              "create_message", "store", "join", "check", "drop_isolate",
              "drop_flag", "returned", "crashed" }
  /\ flag \in BOOLEAN
  /\ completed \in BOOLEAN
  /\ wd \in [Calls -> {"unborn", "sleeping", "awake", "firing", "done", "joined"}]
  /\ term \in {"none", "requested", "terminating"}
  /\ wdFired \in BOOLEAN
  /\ cbCount \in 0..MaxCb
  /\ isolateAlive \in BOOLEAN
  /\ flagAlive \in BOOLEAN
  /\ fires \in 0..1
  /\ wdLoaded \in {"unread", "true", "false"}
  /\ slept \in BOOLEAN

----------------------------------------------------------------------------
\* What the claims speak about

Returned == pc = "returned"

\* The script compiles and then never completes on its own
NeverCompletes(s) ==
  /\ s.compiles
  /\ \/ s.run = "loop"
     \/ s.run = "value" /\ s.str = "loop"

\* The outcome the session gives when no watcher interferes
SessionOutcome(s) ==
  IF ~s.compiles THEN Err("Uncaught " \o SyntaxErrorValue)
  ELSE IF s.run = "throw" THEN Err("Uncaught " \o ThrownValue)
  ELSE IF s.run = "none" THEN Err(MsgUnknown)
  ELSE IF s.run = "value" /\ s.str = "throw" THEN Err("Uncaught " \o CoercionErrorValue)
  ELSE IF s.run = "value" /\ s.str \in {"plain", "js"}
       THEN Ok(IF s.val = "<D800>" THEN "<FFFD>" ELSE s.val)
  ELSE NoResult

IsHeapFailure(o) == ~o.ok /\ o.s \in HeapMessages
IsTimeout(o) == o = Err(MsgTimeout)

\* C1: if the near-heap-limit flag is set when exec_v8 returns, the outcome
\* is one of the 'near heap allocation limit' failures, whatever the raw
\* result was.
C1_HeapPrecedence ==
  (Returned /\ flag) => IsHeapFailure(outcome)

\* C2 as stated: if the watchdog invoked terminate_execution during the call
\* and the flag was never set, the outcome is 'Execution timed out'.
C2_TimeoutWheneverFired ==
  (Returned /\ wdFired /\ ~flag) => IsTimeout(outcome)

\* C2 as amended: if the engine honoured the watchdog's request inside run or
\* the string coercion (the isolate is terminating) and the flag was never
\* set, the outcome is 'Execution timed out'.
C2_TimeoutWhenHonoured ==
  (Returned /\ wdFired /\ term = "terminating" /\ ~flag) => IsTimeout(outcome)

C2_Witness ==
  /\ Returned /\ wdFired /\ term = "terminating" /\ ~flag
  /\ script.run = "value"
  /\ IsTimeout(outcome)

\* C3: a call on a script that never completes on its own and never triggers
\* the heap callback eventually returns, with 'Execution timed out'.
C3_LoopTimesOut ==
  (pc = "compile" /\ NeverCompletes(script) /\ ~script.heapy)
     ~> (Returned /\ IsTimeout(outcome))

C3_Witness ==
  /\ Returned /\ script.run = "loop" /\ ~script.heapy
  /\ IsTimeout(outcome)

\* C4: once the near-heap-limit callback has fired, the engine never
\* hard-aborts the process on out-of-memory.
C4_NoHardAbort ==
  (cbCount > 0) => pc # "crashed"

\* C5: when the watchdog does not abort and the heap callback is not invoked,
\* the outcome is the session's own: Ok(stringified value), Err(engine
\* exception message) or Err('Unknown error').
C5_SessionAlone ==
  (Returned /\ ~wdFired /\ cbCount = 0) => outcome = SessionOutcome(script)

C5_Witness ==
  /\ Returned /\ ~wdFired /\ cbCount = 0
  /\ script.run = "value" /\ script.str = "js" /\ script.val = "<D800>"
  /\ outcome = Ok("<FFFD>")

CompileDiagnostic == "Uncaught " \o SyntaxErrorValue

\* C6 as stated: for a script that fails to compile the outcome is the
\* compile failure with the engine's diagnostic, in every interleaving.
C6_AlwaysCompileFailure ==
  (Returned /\ ~script.compiles) => outcome = Err(CompileDiagnostic)

\* C6 as amended: for a script that fails to compile the outcome is never a
\* success and never a timeout; it is the compile failure with the engine's
\* diagnostic when get_error loaded the flag as false, and the failure
\* 'Execution error: V8 was near heap allocation limit' when it loaded true.
C6_CompileFailureUnlessHeap ==
  (Returned /\ ~script.compiles) =>
     /\ ~outcome.ok
     /\ ~IsTimeout(outcome)
     /\ (flagLoaded = "false" => outcome = Err(CompileDiagnostic))
     /\ (flagLoaded = "true" => outcome = Err(MsgHeapErr))

C6_Witness ==
  /\ Returned /\ ~script.compiles /\ wdFired /\ firedAt = "compile"
  /\ flag /\ flagLoaded = "false"
  /\ outcome = Err(CompileDiagnostic)

\* C7: the ScriptResult main renders has exactly one of its two fields
\* non-empty: the result for a success, the error for a failure.
C7_ExactlyOneField ==
  (rendered # NoRender) =>
     /\ (rendered.result # "") # (rendered.error # "")
     /\ (outcome.ok <=> rendered.result # "")

\* C8: each call spawns exactly one watchdog thread, the thread has been
\* joined when exec_v8 returns, and no watchdog of a completed call is alive.
C8_WatchdogJoined ==
  /\ \A c \in Calls :
       /\ spawns[c] = (IF c <= call THEN 1 ELSE 0)
       /\ (c < call => wd[c] = "joined")
       /\ (c > call => wd[c] = "unborn")
  /\ (pc \in {"check", "returned", "idle"} /\ call > 0) => wd[call] = "joined"

C8_Witness ==
  /\ Returned /\ call = 2 /\ wdFired
  /\ flag /\ result.ok /\ outcome = Err(MsgHeapFinished)

\* Positions of the executor after script.run has returned and before the
\* finished flag is stored
AfterRun == { "to_string", "get_error", "create_message", "store" }
\* ... and after the string coercion has returned as well
AfterBlock == { "get_error", "create_message", "store" }

\* C9 as stated: an abort issued after the script's run has returned does not
\* change the outcome of the call (and no later call reports a timeout
\* because of it).
C9_LateAbortNoOp ==
  /\ (Returned /\ wdFired /\ firedAt \in AfterRun /\ cbCount = 0
        /\ ~NeverCompletes(script))
       => outcome = SessionOutcome(script)
  /\ (Returned /\ ~wdFired) => ~IsTimeout(outcome)

\* C9 as amended: an abort issued after compile, run and the string coercion
\* have all returned does not change the outcome of the call, and a call in
\* which the watchdog did not fire sees no termination request and reports
\* no timeout, whatever the earlier calls left behind.
C9_AbortAfterBlockNoOp ==
  /\ (Returned /\ wdFired /\ firedAt \in AfterBlock /\ cbCount = 0)
       => outcome = SessionOutcome(script)
  /\ (Returned /\ ~wdFired) => (~IsTimeout(outcome) /\ term = "none")

C9_Witness ==
  /\ Returned /\ call = 2 /\ wdFired /\ firedAt = "store"
  /\ term = "requested" /\ outcome = Ok("2")

\* C10: when exec_v8 returns, the isolate it used carries no pending
\* termination request.
C10_NoPendingAbortAtReturn ==
  Returned => term = "none"

\* C11: every call starts from fresh state and reads nothing of a completed
\* call: the heap flag is true only if the heap callback fired in this call,
\* the finished flag only once this call has stored it, and the isolate has
\* a termination request only if this call's watchdog fired.
C11_FreshState ==
  /\ flag => cbCount > 0
  /\ completed => pc \in {"join", "check", "drop_isolate", "drop_flag",
                           "returned", "idle"}
  /\ term # "none" => wdFired
  /\ (pc = "compile" /\ cbCount = 0 /\ ~wdFired)
       => (~flag /\ ~completed /\ term = "none" /\ isolateAlive /\ flagAlive)

C11_Witness ==
  /\ call = 2 /\ pc = "compile"
  /\ prev.keep /\ ~prev.quiet /\ prev.outcome = Err(MsgHeapFinished)
  /\ ~flag /\ ~completed /\ term = "none"

\* The variant of an outcome
OutcomeKind(o) ==
  IF o.ok THEN "Success"
  ELSE IF o.s = MsgTimeout THEN "Timeout"
  ELSE IF o.s \in HeapMessages THEN "MemoryLimitExceeded"
  ELSE IF o.s = MsgUnknown THEN "InternalError"
  ELSE "Exception"

\* The current call returned and the call before it ran the same script
SameScriptTwice ==
  Returned /\ call >= 2 /\ prev.keep /\ prev.script = script

WatchdogUnjoined ==
  call \in Calls /\ wd[call] \in {"sleeping", "awake", "firing", "done"}

C14_FlagOutlivesIsolate ==
  /\ isolateAlive => flagAlive
  /\ (pc \in EnginePcs) => (isolateAlive /\ flagAlive)
  /\ (pc \in {"returned", "idle"}) => (~isolateAlive /\ ~flagAlive)

C14_Witness ==
  /\ pc = "drop_flag" /\ ~isolateAlive /\ flagAlive
  /\ flag /\ cbCount = 2 /\ result.ok /\ outcome = Err(MsgHeapFinished)

\* C15: the watchdog calls terminate_execution at most once per call, only
\* after its sleep has elapsed and only if it loaded the finished flag as
\* false; when it loaded the flag as true it never calls it.
C15_AbortOnceAfterSleep ==
  /\ fires <= 1
  /\ (fires > 0 <=> wdFired)
  /\ (fires > 0) => (slept /\ wdLoaded = "false")
  /\ (wdLoaded = "true") => (fires = 0 /\ completed)
  /\ (wdLoaded # "unread") => slept
  /\ (call \in Calls /\ wd[call] = "firing")
       => (slept /\ wdLoaded = "false" /\ fires = 0)

C15_Witness ==
  /\ Returned /\ fires = 1 /\ slept /\ wdLoaded = "false"
  /\ firedAt = "run" /\ IsTimeout(outcome)

\* Executor positions up to and including the block of lines 100-123
BeforeStore == { "compile", "run", "to_string", "get_error",
                 "create_message", "store", "crashed" }

\* C16: the finished flag is stored after the compile/run/stringify block
\* has returned and before the watchdog is joined: it is false while the
\* block runs, true when the join starts, and the join has never returned
\* without it.
C16_StoreBetweenBlockAndJoin ==
  /\ (pc \in BeforeStore) => ~completed
  /\ completed => result # NoResult
  /\ (pc = "join") => completed
  /\ (call \in Calls /\ wd[call] = "joined") => completed

C16_Witness ==
  /\ pc = "join" /\ completed /\ result = Ok("<FFFD>")
  /\ wd[call] = "sleeping"

\* C17: within one call the near-heap-limit flag, once true, stays true: it
\* goes from false to true at most once and is never reset, however many
\* times the heap callback is invoked.
C17_FlagSetOnce ==
  [][(call' = call /\ flag) => flag']_vars

C17_Witness ==
  /\ cbCount = 2 /\ flag /\ pc = "run"

\* C18: terminate_execution is never invoked after the isolate has been
\* destroyed: while the watchdog thread can still call it the isolate
\* exists, and the isolate is dropped only after the join.
C18_NoTerminateAfterDrop ==
  /\ (call \in Calls /\ wd[call] \in {"sleeping", "awake", "firing"})
       => isolateAlive
  /\ (call \in Calls /\ ~isolateAlive) => wd[call] = "joined"

C18_Witness ==
  /\ pc = "drop_flag" /\ ~isolateAlive /\ wd[call] = "joined"
  /\ fires = 1 /\ firedAt = "join" /\ term = "requested"

\* C19: exec_v8 never returns before the watchdog's sleep has elapsed: past
\* the join the sleep of the current call is over, also when the script
\* completed or failed to compile at once.
C19_ReturnAfterSleep ==
  (call \in Calls /\ pc \in {"check", "drop_isolate", "drop_flag",
                              "returned", "idle"})
    => slept

C19_Witness ==
  /\ Returned /\ ~script.compiles /\ slept
  /\ wdLoaded = "true" /\ fires = 0

\* C20: exec_v8 returns 'Execution timed out' only if the watchdog invoked
\* terminate_execution before the error was classified and get_error loaded
\* the near-heap-limit flag as false.
C20_TimeoutOnlyAfterAbort ==
  (pc \in {"store", "join", "check", "drop_isolate", "drop_flag", "returned"}
     /\ (IsTimeout(result) \/ IsTimeout(outcome)))
    => /\ fires = 1
       /\ firedAt \in {"compile", "run", "to_string"}
       /\ term = "terminating"
       /\ flagLoaded = "false"

C20_Witness ==
  /\ Returned /\ IsTimeout(outcome) /\ fires = 1 /\ firedAt = "compile"
  /\ flagLoaded = "false" /\ script.run = "value" /\ script.heapy

====
